---- MODULE Spec2Model ----
(***************************************************************************)
(* PlutoSDR source module (source_modules/plutosdr_source/src/main.cpp):   *)
(* the control path (start, stop, tune, the menu handler's widgets), the   *)
(* acquisition thread (worker) and the handoff stream between the worker   *)
(* and its consumer.                                                       *)
(*                                                                         *)
(* Handles are "NULL", "live" (a pointer into the context that is open     *)
(* now) or "stale" (a pointer into a context that has been destroyed).     *)
(* C++ ids are 0-based; an option list here is a sequence and id i names   *)
(* its element i + 1.  Gains are whole dB, frequencies whole Hz.           *)
(***************************************************************************)
EXTENDS Integers, Sequences, FiniteSets, TLC

VARIABLES
    \* ---- device list, selection and persisted configuration
    devices,        \* OptionList devices: sequence of device keys
    devDesc, uri,   \* selected device key and its URI ("" = none)
    conf,           \* config.conf["devices"]: key -> record of stored settings
    devId,
    \* ---- stream configuration fields
    freq, samplerate, bandwidth, gain,
    srId, bwId, gmId, rfId, iqmodeId,
    \* ---- hardware status fields shown by the menu
    underflow, overgain,
    \* ---- device session
    running, ctx, phy, dev, rxLO, rxChan,
    \* ---- handoff stream (dsp::stream) and its consumer
    stream,
    \* ---- acquisition thread: position and locals
    wpc,            \* "none" | "setup" | "loop" | "polled" | "swap" | "drain" | "done"
    wBlockSize,     \* blockSize local of worker
    wPair,          \* data channels held in rx0_i / rx0_q: "none" | "v0v1" | "v2v3"
    \* ---- control path position
    ctl,            \* "idle" | "joining" (inside stop(), blocked in join) |
                    \* "destroying" (the destructor's stop()) | "destroyed"
    enabled,        \* the module's enabled flag
    \* ---- hardware
    hwMode,         \* adi,2rx-2tx-mode-enable of the attached device
    reg3,           \* phy register 0x003
    chanOn,         \* enabled data channels of the streaming device
    rxbuf,          \* TRUE while the DMA buffer exists
    crashed,        \* the process died (null handle dereferenced, terminate)
    \* ---- observation of the last step and of the session
    lastOp,         \* name of the last operation or thread step
    lastArg,        \* the value, option id or key the last request carried, else 0
    hwLog,          \* hardware writes of the last step, in order: <<attr, value>>
    fail,           \* where the last configuration attempt failed, "none" if not
    run             \* facts about the current session and the thread's last cycle

cfgVars   == <<devices, devDesc, uri, conf, devId, freq, samplerate, bandwidth,
               gain, srId, bwId, gmId, rfId, iqmodeId>>
statVars  == <<underflow, overgain>>
sessVars  == <<running, ctx, phy, dev, rxLO, rxChan>>
workVars  == <<wpc, wBlockSize, wPair>>
hwVars    == <<hwMode, reg3, chanOn, rxbuf, crashed>>
obsVars   == <<lastOp, lastArg, hwLog, fail, run>>
vars      == <<cfgVars, statVars, sessVars, stream, workVars, ctl, enabled, hwVars,
               obsVars>>

----------------------------------------------------------------------------
(* Option lists built by the constructor *)

Min(a, b) == IF a < b THEN a ELSE b
Max(a, b) == IF a > b THEN a ELSE b

\* for (sr = 2500000; sr <= 61440000; sr += 500000), then 61440000
samplerates == [i \in 1..118 |-> 2500000 + (i - 1) * 500000] \o <<61440000>>

\* "Auto" (0), then for (bw = 1000000; bw <= 52000000; bw += 500000)
bandwidths == <<0>> \o [i \in 1..103 |-> 1000000 + (i - 1) * 500000]

gainModes == <<"manual", "fast_attack", "slow_attack", "hybrid">>

rfinputselect == <<"rx1", "rx2">>

iqmodeselect == <<"cs16", "cs8">>

\* OptionList::keyExists / keyId / value (ids are 0-based)
KeyExists(list, k) == \E i \in DOMAIN list : list[i] = k
KeyId(list, k) == (CHOOSE i \in DOMAIN list : list[i] = k) - 1
Value(list, id) == list[id + 1]

\* The devices a scan can report, and the URI the scan gives for each
DeviceKeys == {"PlutoSDR usb", "ANTSDR ip"}
DeviceUri(k) == IF k = "PlutoSDR usb" THEN "usb:1.4.5" ELSE "ip:192.168.2.1"
DeviceLists == {<<>>, <<"PlutoSDR usb">>, <<"ANTSDR ip">>,
                <<"PlutoSDR usb", "ANTSDR ip">>}

----------------------------------------------------------------------------
(* Values the control path and the hardware can supply *)

FreqChoices == {100000000, 433920000}
SrIdChoices == {3, 118}
BwIdChoices == {0, 1}
GmIdChoices == {0, 1}
GainChoices == {-1, 20}
RfIdChoices == {0, 1}
DevIdChoices == {0, 1}
IqModeChoices == {0, 1}
Reg3Choices == {92}
\* what a refill returns, what the underflow status register reads, and the
\* first two elements of a refilled buffer
RefillResults == {"ok", "error"}
StatusChoices == {0, 1, 4}
ZeroBuffer == <<0, 0>>
RawBuffers == {<<64, 0>>, <<-128, 127>>}

\* a record with field f set to v (nlohmann json operator[] assignment)
SetField(r, f, v) == [x \in (DOMAIN r) \cup {f} |-> IF x = f THEN v ELSE r[x]]
Contains(r, f) == f \in DOMAIN r
EmptyRec == [x \in {} |-> 0]

ClampGain_Raw(g) == g

\* std::clamp<int>(gain, -1.0f, 73.0f)
ClampGain(g) == Max(-1, Min(73, g))

----------------------------------------------------------------------------
(* Handoff stream *)

\* a sample value is kept exactly, in units of 1/2048; a buffer is modelled by
\* its first complex sample <<re, im>>
StreamInit == [writerStop |-> FALSE, canSwap |-> TRUE, consumerDown |-> FALSE,
               dataSize |-> 0, writeBuf |-> <<0, 0>>, readBuf |-> <<0, 0>>]

\* swap() returns failure when the writer was stopped or the consumer is gone
SwapFails(s) == s.writerStop \/ s.consumerDown

\* swap() can complete: a free slot is there
SwapReady(s) == s.canSwap

stopWriter(s) == [s EXCEPT !.writerStop = TRUE]
clearWriteStop(s) == [s EXCEPT !.writerStop = FALSE]

----------------------------------------------------------------------------
(* select(desc), lines 207-286.  Both callers that can pass a key missing   *)
(* from the list pass devDesc itself by reference, so after the recursive   *)
(* select of the first device desc reads as that first key.                 *)

SelectedKey_Last(devs, desc) == IF KeyExists(devs, desc) THEN desc ELSE devs[Len(devs)]

\* lines 214-221: select(devices.key(0)) runs first, then devDesc = desc with
\* desc naming the devDesc field the recursive call has just assigned
SelectedKey(devs, desc) == IF KeyExists(devs, desc) THEN desc ELSE devs[1]

LoadedSamplerate(c) == IF Contains(c, "samplerate") THEN c.samplerate ELSE 4000000
LoadedBandwidth(c) == IF Contains(c, "bandwidth") THEN c.bandwidth ELSE 0
LoadedGmId(c) ==
    IF Contains(c, "gainMode") /\ KeyExists(gainModes, c.gainMode)
    THEN KeyId(gainModes, c.gainMode) ELSE 0
LoadedGain(c) == IF Contains(c, "gain") THEN ClampGain(c.gain) ELSE -1
LoadedRfId(c) ==
    IF Contains(c, "rfselect") /\ KeyExists(rfinputselect, c.rfselect)
    THEN KeyId(rfinputselect, c.rfselect) ELSE 0

NormSamplerate_AsStored(sr) == sr

\* lines 269-276: a sample rate missing from the table becomes entry 0
NormSamplerate(sr) == IF KeyExists(samplerates, sr) THEN sr ELSE Value(samplerates, 0)
NormSrId(sr) == IF KeyExists(samplerates, sr) THEN KeyId(samplerates, sr) ELSE 0

\* lines 278-285: a bandwidth missing from the table becomes entry 0 (Auto)
NormBandwidth(bw) == IF KeyExists(bandwidths, bw) THEN bw ELSE Value(bandwidths, 0)
NormBwId(bw) == IF KeyExists(bandwidths, bw) THEN KeyId(bandwidths, bw) ELSE 0

select(devs, desc) ==
    IF devs = <<>>
    THEN /\ devDesc' = ""
         /\ UNCHANGED <<uri, samplerate, bandwidth, gain, srId, bwId, gmId,
                        rfId, iqmodeId>>
    ELSE LET k  == SelectedKey(devs, desc)
             c  == conf[k]
             sr == LoadedSamplerate(c)
             bw == LoadedBandwidth(c)
         IN /\ devDesc' = k
            /\ uri' = DeviceUri(k)
            /\ gmId' = LoadedGmId(c)
            /\ gain' = LoadedGain(c)
            /\ rfId' = LoadedRfId(c)
            /\ iqmodeId' = 0
            /\ srId' = NormSrId(sr) /\ samplerate' = NormSamplerate(sr)
            /\ bwId' = NormBwId(bw) /\ bandwidth' = NormBandwidth(bw)

----------------------------------------------------------------------------
(* Hardware writes *)

BandwidthValue_NoCeiling(bw, sr) == IF bw > 0 THEN bw ELSE sr

\* setBandwidth(bw): the value written to rf_bandwidth
BandwidthValue(bw, sr) == IF bw > 0 THEN bw ELSE Min(sr, 52000000)

setBandwidth(bw, sr) == << <<"rf_bandwidth", BandwidthValue(bw, sr)>> >>

\* val = (val & 0x3F) | ((rfId + 1) << 6)
SteerValue(r3, rf) == (r3 % 64) + (rf + 1) * 64

\* the register and debug-attribute writes that steer the shared RX path
SteerWrites(r3, rf) ==
    << <<"reg_0x003", SteerValue(r3, rf)>>,
       <<"adi,1rx-1tx-mode-use-rx-num", rf + 1>> >>

LoWrites_RxFirst == << <<"altvoltage0.powerdown", 0>>, <<"altvoltage1.powerdown", 1>> >>

\* lines 355-357: power down the TX LO, power up the RX LO
LoWrites == << <<"altvoltage1.powerdown", 1>>, <<"altvoltage0.powerdown", 0>> >>

ConfigWrites_GainSkipped ==
    << <<"rf_port_select", "A_BALANCED">>,
       <<"frequency", freq>>,
       <<"sampling_frequency", samplerate>>,
       <<"gain_control_mode", Value(gainModes, gmId)>> >>
    \o << <<"rf_bandwidth", IF bandwidth > 0 THEN bandwidth ELSE Min(samplerate, 52000000)>> >>

\* lines 359-366: configure the RX channel
ConfigWrites ==
    << <<"rf_port_select", "A_BALANCED">>,
       <<"frequency", freq>>,
       <<"sampling_frequency", samplerate>>,
       <<"hardwaregain", gain>>,
       <<"gain_control_mode", Value(gainModes, gmId)>> >>
    \o setBandwidth(bandwidth, samplerate)

\* iio_context_destroy: every pointer into the context dangles
Stale(h) == IF h = "live" THEN "stale" ELSE h

Wrote(log, attr, v) == \E i \in DOMAIN log : log[i][1] = attr /\ log[i][2] = v

----------------------------------------------------------------------------
(* Session facts kept for the properties *)

\* the counters of run stop counting here
MaxCount == 2

RunInit == [polled |-> FALSE, ovrReg |-> "none", conv |-> "none",
            layout |-> "none", drains |-> 0, refillsAfterStop |-> 0,
            stoppedInLoop |-> FALSE, rfAtStart |-> 0, iqAtStart |-> 0,
            srAtSetup |-> 0, refillErr |-> FALSE, bufNull |-> FALSE,
            raw |-> <<0, 0>>, nconv |-> 0]

----------------------------------------------------------------------------
(* State after construction: refresh(), then select(config device) *)

InitSession ==
    /\ running = FALSE /\ ctx = "NULL" /\ phy = "NULL" /\ dev = "NULL"
    /\ rxLO = "NULL" /\ rxChan = "NULL"
    /\ underflow = 0 /\ overgain = 0
    /\ stream = StreamInit
    /\ wpc = "none" /\ wBlockSize = 0 /\ wPair = "none"
    /\ ctl = "idle"
    /\ enabled = TRUE
    /\ hwMode \in {0, 1} /\ reg3 \in Reg3Choices /\ chanOn = {} /\ rxbuf = FALSE
    /\ crashed = FALSE
    /\ lastOp = "construct" /\ lastArg = 0 /\ hwLog = <<>> /\ fail = "none" /\ run = RunInit

\* the fields select() leaves for a device that has no stored settings; with
\* no device listed select() returns early and srId keeps its initializer 0
InitDefaults ==
    /\ samplerate = 4000000
    /\ srId = (IF devices = <<>> THEN 0 ELSE KeyId(samplerates, 4000000))
    /\ bandwidth = 0 /\ bwId = 0
    /\ gain = -1 /\ gmId = 0 /\ rfId = 0 /\ iqmodeId = 0 /\ devId = 0

Init ==
    /\ InitSession
    /\ devices \in DeviceLists
    /\ InitDefaults
    /\ conf = [k \in DeviceKeys |-> EmptyRec]
    /\ devDesc \in (IF devices = <<>> THEN {""} ELSE {devices[i] : i \in DOMAIN devices})
    /\ uri = (IF devices = <<>> THEN "" ELSE DeviceUri(devDesc))
    /\ freq = 100000000

----------------------------------------------------------------------------
(* start(), lines 299-375 *)

StartGivesUp_UriOnly == uri = ""

StartReturnsAtOnce_Never == FALSE

\* line 301
StartReturnsAtOnce == running

\* line 304: no device is selected
StartGivesUp == devDesc = "" \/ uri = ""

\* what the hardware can answer to one start(): the first lookup that fails
StartOutcomes == {"ctx", "phy", "dev", "chan", "ok"}

StartSteer == IF hwMode = 1 THEN <<>> ELSE SteerWrites(reg3, rfId)

StartAttempt(o) ==
    /\ ctx' = (IF o = "ctx" THEN "NULL" ELSE IF o \in {"phy", "dev"} THEN "stale" ELSE "live")
    /\ phy' = (IF o = "ctx" THEN phy ELSE IF o = "phy" THEN "NULL"
               ELSE IF o = "dev" THEN "stale" ELSE "live")
    /\ dev' = (IF o \in {"ctx", "phy"} THEN dev ELSE IF o = "dev" THEN "NULL" ELSE "live")
    /\ rxChan' = (IF o \in {"ctx", "phy", "dev"} THEN rxChan
                  ELSE IF o = "chan" THEN "NULL" ELSE "live")
    /\ rxLO' = (IF o \in {"ctx", "phy", "dev"} THEN rxLO ELSE "live")
    /\ reg3' = (IF o \in {"chan", "ok"} /\ hwMode # 1 THEN SteerValue(reg3, rfId) ELSE reg3)
    /\ hwLog' = (IF o = "ok" THEN StartSteer \o LoWrites \o ConfigWrites
                 ELSE IF o = "chan" THEN StartSteer \o LoWrites
                 ELSE <<>>)
    \* a write through the null rxChan, or a thread assigned over a joinable one
    /\ crashed' = (o = "chan" \/ (o = "ok" /\ wpc # "none"))
    /\ running' = (o = "ok")
    /\ wpc' = (IF o = "ok" THEN "setup" ELSE wpc)
    /\ fail' = (IF o = "ok" THEN "none" ELSE o)
    /\ run' = (IF o = "ok"
               THEN [RunInit EXCEPT !.rfAtStart = rfId, !.iqAtStart = iqmodeId]
               ELSE run)
    /\ UNCHANGED <<hwMode, chanOn, rxbuf, wBlockSize, wPair>>

start ==
    /\ ~crashed
    /\ ctl = "idle"
    /\ lastOp' = "start"
    /\ UNCHANGED enabled
    /\ lastArg' = 0
    /\ IF StartReturnsAtOnce \/ StartGivesUp
       THEN /\ hwLog' = <<>>
            /\ UNCHANGED <<sessVars, workVars, hwVars, fail, run>>
       ELSE \E o \in StartOutcomes : StartAttempt(o)
    /\ UNCHANGED <<cfgVars, statVars, stream, ctl>>

----------------------------------------------------------------------------
(* stop(), lines 377-394.  The call blocks in join until the thread has    *)
(* returned; StopJoin is the rest of the call.                             *)

StopReturnsAtOnce_Never == FALSE

\* line 379
StopReturnsAtOnce == ~running

JoinReturns_NoWait == TRUE

\* line 384: join returns once the thread function has returned
JoinReturns == wpc = "done"

stop ==
    /\ ~crashed
    /\ ctl = "idle"
    /\ lastOp' = "stop"
    /\ UNCHANGED enabled
    /\ lastArg' = 0
    /\ hwLog' = <<>>
    /\ IF StopReturnsAtOnce
       THEN UNCHANGED <<running, stream, ctl, run>>
       ELSE /\ running' = FALSE
            /\ stream' = stopWriter(stream)
            /\ ctl' = "joining"
            /\ run' = [run EXCEPT !.refillsAfterStop = 0,
                                  !.stoppedInLoop = wpc \in {"loop", "polled", "swap"}]
    /\ UNCHANGED <<cfgVars, statVars, ctx, phy, dev, rxLO, rxChan, workVars, hwVars, fail>>

StopJoin ==
    /\ ~crashed
    /\ ctl \in {"joining", "destroying"}
    /\ JoinReturns
    /\ wpc' = "none"
    /\ stream' = clearWriteStop(stream)
    /\ IF ctx # "NULL"
       THEN /\ ctx' = "NULL"
            /\ phy' = Stale(phy) /\ dev' = Stale(dev)
            /\ rxLO' = Stale(rxLO) /\ rxChan' = Stale(rxChan)
            /\ chanOn' = {}
       ELSE UNCHANGED <<ctx, phy, dev, rxLO, rxChan, chanOn>>
    /\ ctl' = (IF ctl = "destroying" THEN "destroyed" ELSE "idle")
    /\ lastOp' = "stop_return"
    /\ UNCHANGED enabled
    /\ lastArg' = 0
    /\ hwLog' = <<>>
    /\ fail' = "none"
    /\ run' = RunInit
    /\ UNCHANGED <<cfgVars, statVars, running, wBlockSize, wPair, hwMode, reg3,
                   rxbuf, crashed>>

\* ~PlutoSDRSourceModule(), lines 87-90: stop(this), then the members are
\* destroyed; destroying a joinable std::thread terminates the process
Destructor ==
    /\ ~crashed
    /\ ctl = "idle"
    /\ lastOp' = "destructor"
    /\ UNCHANGED enabled
    /\ lastArg' = 0
    /\ hwLog' = <<>>
    /\ IF StopReturnsAtOnce
       THEN /\ ctl' = "destroyed"
            /\ crashed' = (wpc # "none")
            /\ UNCHANGED <<running, stream, run>>
       ELSE /\ running' = FALSE
            /\ stream' = stopWriter(stream)
            /\ ctl' = "destroying"
            /\ run' = [run EXCEPT !.refillsAfterStop = 0,
                                  !.stoppedInLoop = wpc \in {"loop", "polled", "swap"}]
            /\ UNCHANGED crashed
    /\ UNCHANGED <<cfgVars, statVars, ctx, phy, dev, rxLO, rxChan, workVars, hwMode,
                   reg3, chanOn, rxbuf, fail>>

\* lines 94-104: enable(), disable(), isEnabled()
enable ==
    /\ ~crashed
    /\ ctl = "idle"
    /\ enabled' = TRUE
    /\ lastOp' = "enable" /\ lastArg' = 0 /\ hwLog' = <<>>
    /\ UNCHANGED <<cfgVars, statVars, sessVars, stream, workVars, ctl, hwVars, fail, run>>

disable ==
    /\ ~crashed
    /\ ctl = "idle"
    /\ enabled' = TRUE
    /\ lastOp' = "disable" /\ lastArg' = 0 /\ hwLog' = <<>>
    /\ UNCHANGED <<cfgVars, statVars, sessVars, stream, workVars, ctl, hwVars, fail, run>>

isEnabled == enabled

----------------------------------------------------------------------------
(* worker(), lines 564-663 *)

\* the host's maximum transfer size (STREAM_BUFFER_SIZE of the dsp library)
STREAM_BUFFER_SIZE == 1000000

\* #define MAX_BUFFER_PLUTO 64000000 / 2
MAX_BUFFER_PLUTO == 32000000

BlockSize_Uncapped(sr) == sr \div 20

\* lines 567-572
BlockSize(sr) == Min(STREAM_BUFFER_SIZE, sr \div 20)
KernelBuffers(sr) == Min(8, MAX_BUFFER_PLUTO \div BlockSize(sr))

\* lines 575-584: the data channels taken as rx0_i / rx0_q
PairFor(rf, mode) == IF rf = 1 /\ mode = 1 THEN "v2v3" ELSE "v0v1"
ChanI(pair) == IF pair = "v2v3" THEN "voltage2" ELSE "voltage0"
ChanQ(pair) == IF pair = "v2v3" THEN "voltage3" ELSE "voltage1"

\* lines 592-599: channels enabled for the selected IQ mode
EnableFor(on, pair, iq) ==
    IF iq = 0 THEN on \cup {ChanI(pair), ChanQ(pair)}
    ELSE (on \cup {ChanI(pair)}) \ {ChanQ(pair)}

\* lines 633-636: the overdrive register read in a cycle
OverdriveReg(rf, mode) == IF rf = 1 /\ mode = 1 THEN "0x5F" ELSE "0x5E"

\* lines 640-654: the converter a cycle uses
ConverterFor(iq) == IF iq = 0 THEN "cs16" ELSE "cs8"

\* what the driver can answer during the thread's setup
SetupOutcomes == {"iqchan", "buffer", "ok"}

WorkerSetup ==
    /\ ~crashed
    /\ wpc = "setup"
    /\ lastOp' = "worker_setup"
    /\ UNCHANGED enabled
    /\ lastArg' = 0
    /\ wBlockSize' = BlockSize(samplerate)
    /\ \E o \in SetupOutcomes, u \in {0, 1} :
         LET pair == PairFor(rfId, hwMode) IN
         /\ wPair' = (IF o = "iqchan" THEN "none" ELSE pair)
         /\ chanOn' = (IF o = "iqchan" THEN chanOn ELSE EnableFor(chanOn, pair, iqmodeId))
         /\ rxbuf' = (o = "ok")
         /\ wpc' = (IF o = "ok" THEN "loop" ELSE "done")
         /\ fail' = (IF o = "ok" THEN fail ELSE o)
         \* lines 614-616: the underflow register is read and written back
         /\ hwLog' = (IF o = "iqchan" THEN <<>>
                      ELSE << <<"kernel_buffers_count", KernelBuffers(samplerate)>> >>
                           \o (IF o = "ok" THEN << <<"reg_0x80000088", 4 * u>> >> ELSE <<>>))
         /\ run' = (IF o = "ok"
                    THEN [run EXCEPT !.layout = ConverterFor(iqmodeId),
                                     !.srAtSetup = samplerate]
                    ELSE run)
    /\ UNCHANGED <<cfgVars, statVars, sessVars, stream, ctl, hwMode, reg3, crashed>>

\* lines 621-639: the loop has no exit test before the refill; the refill's
\* result is stored in BufferRead and not read again
LoopContinues == TRUE

UnderflowOf_AnyBit(val) == IF val # 0 THEN 1 ELSE 0

\* lines 625-631
UnderflowOf(val) == IF (val \div 4) % 2 = 1 THEN 1 ELSE 0

\* res is what iio_buffer_refill returned, val what register 0x80000088 read
WorkerRefill(res, val) ==
    /\ ~crashed
    /\ wpc = "loop"
    /\ LoopContinues
    /\ lastOp' = "worker_refill"
    /\ UNCHANGED enabled
    /\ lastArg' = val
    /\ \E g \in {0, 1} :
         /\ underflow' = UnderflowOf(val)
         /\ hwLog' = (IF UnderflowOf(val) = 1 THEN << <<"reg_0x80000088", val>> >> ELSE <<>>)
         /\ overgain' = g
         /\ run' = [run EXCEPT !.polled = TRUE,
                               !.refillErr = (res = "error"),
                               !.bufNull = FALSE,
                               !.ovrReg = OverdriveReg(rfId, hwMode),
                               !.refillsAfterStop =
                                   IF ctl = "joining" THEN Min(@ + 1, MaxCount) ELSE @]
    /\ wpc' = "polled"
    /\ UNCHANGED <<cfgVars, sessVars, stream, wBlockSize, wPair, ctl, hwVars, fail>>

\* volk_16i_s32f_convert_32f(out, in, 2048.0f, n), volk_8i_s32f_convert_32f(out,
\* in, 128.0f, n): out[i] = in[i] / scalar for every element, in units of 1/2048
Convert(conv, raw) ==
    [i \in DOMAIN raw |-> IF conv = "cs16" THEN raw[i] ELSE raw[i] * 16]

\* lines 640-654 up to the call of swap: iio_buffer_start may give no buffer;
\* raw is the content of the buffer the refill left
WorkerConvert(raw) ==
    /\ ~crashed
    /\ wpc = "polled"
    /\ lastOp' = "worker_convert"
    /\ UNCHANGED enabled
    /\ lastArg' = 0
    /\ hwLog' = <<>>
    /\ \E buf \in {"null", "data"} :
         IF buf = "null"
         THEN /\ wpc' = "loop"
              /\ run' = [run EXCEPT !.bufNull = TRUE]
              /\ UNCHANGED stream
         ELSE /\ wpc' = "swap"
              /\ run' = [run EXCEPT !.conv = ConverterFor(iqmodeId), !.raw = raw,
                                    !.nconv = wBlockSize * 2]
              /\ stream' = [stream EXCEPT
                                !.writeBuf = Convert(ConverterFor(iqmodeId), raw)]
    /\ UNCHANGED <<cfgVars, statVars, sessVars, wBlockSize, wPair, ctl,
                   hwVars, fail>>

\* stream.swap(blockSize): fails, or waits for a free slot and publishes
WorkerSwap ==
    /\ ~crashed
    /\ wpc = "swap"
    /\ lastOp' = "worker_swap"
    /\ UNCHANGED enabled
    /\ lastArg' = 0
    /\ hwLog' = <<>>
    /\ IF SwapFails(stream)
       THEN wpc' = "drain" /\ UNCHANGED <<stream, run>>
       ELSE /\ SwapReady(stream)
            /\ stream' = [stream EXCEPT !.canSwap = FALSE, !.dataSize = wBlockSize,
                                        !.readBuf = stream.writeBuf,
                                        !.writeBuf = stream.readBuf]
            /\ wpc' = "loop"
            /\ UNCHANGED run
    /\ UNCHANGED <<cfgVars, statVars, sessVars, wBlockSize, wPair, ctl, hwVars, fail>>

\* lines 657-663: disable the channels, destroy the buffer, return
WorkerDrain ==
    /\ ~crashed
    /\ wpc = "drain"
    /\ lastOp' = "worker_drain"
    /\ UNCHANGED enabled
    /\ lastArg' = 0
    /\ hwLog' = <<>>
    /\ chanOn' = chanOn \ {ChanI(wPair), ChanQ(wPair)}
    /\ rxbuf' = FALSE
    /\ run' = [run EXCEPT !.drains = Min(@ + 1, MaxCount)]
    /\ wpc' = "done"
    /\ UNCHANGED <<cfgVars, statVars, sessVars, stream, wBlockSize, wPair, ctl,
                   hwMode, reg3, crashed, fail>>

----------------------------------------------------------------------------
(* The consumer of the handoff stream *)

\* read() then flush(): the slot is free again
ConsumerFlush ==
    /\ ~crashed
    /\ ~stream.canSwap
    /\ stream' = [stream EXCEPT !.canSwap = TRUE]
    /\ lastOp' = "consumer_flush"
    /\ UNCHANGED enabled
    /\ lastArg' = 0
    /\ hwLog' = <<>>
    /\ UNCHANGED <<cfgVars, statVars, sessVars, workVars, ctl, hwVars, fail, run>>

\* the consumer side is torn down, or set up again
ConsumerTeardown ==
    /\ ~crashed
    /\ ~stream.consumerDown
    /\ stream' = [stream EXCEPT !.consumerDown = TRUE]
    /\ lastOp' = "consumer_teardown"
    /\ UNCHANGED enabled
    /\ lastArg' = 0
    /\ hwLog' = <<>>
    /\ UNCHANGED <<cfgVars, statVars, sessVars, workVars, ctl, hwVars, fail, run>>

ConsumerRestart ==
    /\ ~crashed
    /\ stream.consumerDown
    /\ stream' = [stream EXCEPT !.consumerDown = FALSE]
    /\ lastOp' = "consumer_restart"
    /\ UNCHANGED enabled
    /\ lastArg' = 0
    /\ hwLog' = <<>>
    /\ UNCHANGED <<cfgVars, statVars, sessVars, workVars, ctl, hwVars, fail, run>>

----------------------------------------------------------------------------
(* tune() and the widgets of menuHandler().  Each widget's branch runs    *)
(* when its widget reports a change; the widgets are drawn disabled while *)
(* running but a change delivered by a remote client still runs the       *)
(* branch, which is why the branches test running themselves.             *)

\* config.conf["devices"][devDesc][field] = value, skipped when devDesc is empty
Stored(field, value) ==
    IF devDesc = "" THEN conf
    ELSE [conf EXCEPT ![devDesc] = SetField(@, field, value)]

TuneWritesLive_Always == TRUE

\* line 399
TuneWritesLive == running

\* lines 396-404
tune(f) ==
    /\ ~crashed
    /\ ctl = "idle"
    /\ lastOp' = "tune"
    /\ UNCHANGED enabled
    /\ lastArg' = f
    /\ freq' = f
    /\ hwLog' = (IF TuneWritesLive THEN << <<"frequency", f>> >> ELSE <<>>)
    /\ UNCHANGED <<devices, devDesc, uri, conf, devId, samplerate, bandwidth, gain,
                   srId, bwId, gmId, rfId, iqmodeId>>
    /\ UNCHANGED <<statVars, sessVars, stream, workVars, ctl, hwVars, fail, run>>

\* lines 412-418
MenuDevice(id) ==
    /\ ~crashed
    /\ ctl = "idle"
    /\ id \in 0..(Len(devices) - 1)
    /\ lastOp' = "menu_device"
    /\ UNCHANGED enabled
    /\ lastArg' = id
    /\ devId' = id
    /\ select(devices, Value(devices, id))
    /\ hwLog' = <<>>
    /\ UNCHANGED <<devices, conf, freq>>
    /\ UNCHANGED <<statVars, sessVars, stream, workVars, ctl, hwVars, fail, run>>

\* lines 420-428
MenuSampleRate(id) ==
    /\ ~crashed
    /\ ctl = "idle"
    /\ lastOp' = "menu_samplerate"
    /\ UNCHANGED enabled
    /\ lastArg' = id
    /\ srId' = id
    /\ samplerate' = Value(samplerates, id)
    /\ conf' = Stored("samplerate", Value(samplerates, id))
    /\ hwLog' = <<>>
    /\ UNCHANGED <<devices, devDesc, uri, devId, freq, bandwidth, gain, bwId, gmId,
                   rfId, iqmodeId>>
    /\ UNCHANGED <<statVars, sessVars, stream, workVars, ctl, hwVars, fail, run>>

\* lines 434-438: refresh() rescans, then select(devDesc)
MenuRefresh(found) ==
    /\ ~crashed
    /\ ctl = "idle"
    /\ lastOp' = "menu_refresh"
    /\ UNCHANGED enabled
    /\ lastArg' = devDesc
    /\ devices' = found
    /\ select(found, devDesc)
    /\ hwLog' = <<>>
    /\ UNCHANGED <<conf, devId, freq>>
    /\ UNCHANGED <<statVars, sessVars, stream, workVars, ctl, hwVars, fail, run>>

\* lines 443-453
MenuBandwidth(id) ==
    /\ ~crashed
    /\ ctl = "idle"
    /\ lastOp' = "menu_bandwidth"
    /\ UNCHANGED enabled
    /\ lastArg' = id
    /\ bwId' = id
    /\ bandwidth' = Value(bandwidths, id)
    /\ hwLog' = (IF running THEN setBandwidth(Value(bandwidths, id), samplerate) ELSE <<>>)
    /\ conf' = Stored("bandwidth", Value(bandwidths, id))
    /\ UNCHANGED <<devices, devDesc, uri, devId, freq, samplerate, gain, srId, gmId,
                   rfId, iqmodeId>>
    /\ UNCHANGED <<statVars, sessVars, stream, workVars, ctl, hwVars, fail, run>>

\* lines 459-469
MenuGainMode(id) ==
    /\ ~crashed
    /\ ctl = "idle"
    /\ lastOp' = "menu_gainmode"
    /\ UNCHANGED enabled
    /\ lastArg' = id
    /\ gmId' = id
    /\ hwLog' = (IF running THEN << <<"gain_control_mode", Value(gainModes, id)>> >>
                 ELSE <<>>)
    /\ conf' = Stored("gainMode", Value(gainModes, id))
    /\ UNCHANGED <<devices, devDesc, uri, devId, freq, samplerate, bandwidth, gain,
                   srId, bwId, rfId, iqmodeId>>
    /\ UNCHANGED <<statVars, sessVars, stream, workVars, ctl, hwVars, fail, run>>

\* the bounds line 474 hands to the slider, which delivers values within them
SliderRange == -1 .. 73

\* lines 474-484
MenuGain(g) ==
    /\ ~crashed
    /\ ctl = "idle"
    /\ g \in SliderRange
    /\ lastOp' = "menu_gain"
    /\ UNCHANGED enabled
    /\ lastArg' = g
    /\ gain' = g
    /\ hwLog' = (IF running THEN << <<"hardwaregain", g>> >> ELSE <<>>)
    /\ conf' = Stored("gain", g)
    /\ UNCHANGED <<devices, devDesc, uri, devId, freq, samplerate, bandwidth,
                   srId, bwId, gmId, rfId, iqmodeId>>
    /\ UNCHANGED <<statVars, sessVars, stream, workVars, ctl, hwVars, fail, run>>

\* lines 493-507: the port is steered at once when running in 1rx-1tx mode
RfInputWritesLive == running /\ hwMode = 0

\* lines 491-522
MenuRfInput(id) ==
    /\ ~crashed
    /\ ctl = "idle"
    /\ lastOp' = "menu_rfinput"
    /\ UNCHANGED enabled
    /\ lastArg' = id
    /\ rfId' = id
    /\ hwLog' = (IF RfInputWritesLive THEN SteerWrites(reg3, id) ELSE <<>>)
    /\ reg3' = (IF RfInputWritesLive THEN SteerValue(reg3, id) ELSE reg3)
    /\ conf' = Stored("rfinput", Value(rfinputselect, id))
    /\ UNCHANGED <<devices, devDesc, uri, devId, freq, samplerate, bandwidth, gain,
                   srId, bwId, gmId, iqmodeId>>
    /\ UNCHANGED <<statVars, sessVars, stream, workVars, ctl, hwMode, chanOn, rxbuf,
                   crashed, fail, run>>

\* lines 528-538
MenuIqMode(id) ==
    /\ ~crashed
    /\ ctl = "idle"
    /\ lastOp' = "menu_iqmode"
    /\ UNCHANGED enabled
    /\ lastArg' = id
    /\ iqmodeId' = id
    /\ hwLog' = <<>>
    /\ conf' = Stored("iqmode", Value(iqmodeselect, id))
    /\ UNCHANGED <<devices, devDesc, uri, devId, freq, samplerate, bandwidth, gain,
                   srId, bwId, gmId, rfId>>
    /\ UNCHANGED <<statVars, sessVars, stream, workVars, ctl, hwVars, fail, run>>

\* lines 540-552: the status lines the menu draws
ShownBuffer == IF running /\ underflow = 1 THEN "underflow" ELSE "nominal"
ShownGain == IF ~running THEN "none" ELSE IF overgain = 0 THEN "OK" ELSE "overdrive"

----------------------------------------------------------------------------
(* Specifications *)

\* session life cycle, with rescans of the device list
Next ==
    \/ start
    \/ stop
    \/ StopJoin
    \/ WorkerSetup
    \/ \E res \in RefillResults, val \in StatusChoices : WorkerRefill(res, val)
    \/ WorkerConvert(ZeroBuffer)
    \/ WorkerSwap
    \/ WorkerDrain
    \/ ConsumerFlush
    \/ ConsumerTeardown
    \/ ConsumerRestart
    \/ \E found \in DeviceLists : MenuRefresh(found)

Spec == Init /\ [][Next]_vars

\* one listed device; the RF input and IQ mode widgets act during sessions
InitOneDevice == Init /\ devices = <<"PlutoSDR usb">>

NextLive ==
    \/ start
    \/ stop
    \/ StopJoin
    \/ WorkerSetup
    \/ \E val \in {0, 4} : WorkerRefill("ok", val)
    \/ WorkerConvert(ZeroBuffer)
    \/ WorkerSwap
    \/ WorkerDrain
    \/ ConsumerFlush
    \/ \E id \in RfIdChoices : MenuRfInput(id)
    \/ \E id \in IqModeChoices : MenuIqMode(id)

SpecLive == InitOneDevice /\ [][NextLive]_vars

\* sessions with the requests that may be served live, and rescans that
\* find the device or lose it
ConfigDeviceLists == {<<>>, <<"PlutoSDR usb">>}

InitConfig == Init /\ devices \in ConfigDeviceLists /\ hwMode = 0

NextConfig ==
    \/ start
    \/ stop
    \/ StopJoin
    \/ WorkerSetup
    \/ \E val \in {0, 4} : WorkerRefill("ok", val)
    \/ WorkerConvert(ZeroBuffer)
    \/ WorkerSwap
    \/ WorkerDrain
    \/ \E f \in FreqChoices : tune(f)
    \/ \E id \in BwIdChoices : MenuBandwidth(id)
    \/ \E id \in GmIdChoices : MenuGainMode(id)
    \/ \E g \in GainChoices : MenuGain(g)
    \/ \E found \in ConfigDeviceLists : MenuRefresh(found)
    \/ \E id \in DevIdChoices : MenuDevice(id)

SpecConfig == InitConfig /\ [][NextConfig]_vars

\* the module's life: enable and disable, sessions, retunes, threads that
\* return on their own, and the destructor
NextLifetime ==
    \/ start
    \/ stop
    \/ StopJoin
    \/ Destructor
    \/ enable
    \/ disable
    \/ WorkerSetup
    \/ WorkerRefill("ok", 0)
    \/ WorkerConvert(ZeroBuffer)
    \/ WorkerSwap
    \/ WorkerDrain
    \/ ConsumerFlush
    \/ ConsumerTeardown
    \/ ConsumerRestart
    \/ \E f \in FreqChoices : tune(f)

SpecLifetime == InitOneDevice /\ [][NextLifetime]_vars

\* settings found in the configuration file at construction: none, values
\* outside the tables and the gain range, and valid values
StoredSettings ==
    { EmptyRec,
      [samplerate |-> 1234567, bandwidth |-> 777, gain |-> 80,
       gainMode |-> "bogus", rfselect |-> "rx2"],
      [samplerate |-> 3000000, bandwidth |-> 1500000, gain |-> -5,
       gainMode |-> "hybrid"] }

\* the constructor's select() of the stored device
InitStored ==
    /\ InitSession
    /\ hwMode = 0
    /\ devices = <<"PlutoSDR usb">>
    /\ conf \in {[k \in DeviceKeys |-> IF k = "PlutoSDR usb" THEN c ELSE EmptyRec] :
                  c \in StoredSettings}
    /\ devDesc = "PlutoSDR usb" /\ uri = DeviceUri(devDesc)
    /\ devId = 0 /\ freq = 100000000 /\ iqmodeId = 0
    /\ samplerate = NormSamplerate(LoadedSamplerate(conf[devDesc]))
    /\ srId = NormSrId(LoadedSamplerate(conf[devDesc]))
    /\ bandwidth = NormBandwidth(LoadedBandwidth(conf[devDesc]))
    /\ bwId = NormBwId(LoadedBandwidth(conf[devDesc]))
    /\ gmId = LoadedGmId(conf[devDesc])
    /\ gain = LoadedGain(conf[devDesc])
    /\ rfId = LoadedRfId(conf[devDesc])

\* sessions, one request of each stored setting, and selections of the device
NextStored ==
    \/ start
    \/ stop
    \/ StopJoin
    \/ WorkerSetup
    \/ WorkerRefill("ok", 0)
    \/ WorkerConvert(ZeroBuffer)
    \/ WorkerSwap
    \/ WorkerDrain
    \/ \E id \in {118} : MenuSampleRate(id)
    \/ \E id \in {1} : MenuBandwidth(id)
    \/ \E id \in {1} : MenuGainMode(id)
    \/ \E g \in {73} : MenuGain(g)
    \/ \E id \in {1} : MenuRfInput(id)
    \/ \E id \in {0} : MenuDevice(id)
    \/ \E found \in {<<"PlutoSDR usb">>} : MenuRefresh(found)

SpecStored == InitStored /\ [][NextStored]_vars

\* sessions at the sample rates and in the IQ modes the menu offers, with
\* refilled buffers of varying content
NextConvert ==
    \/ start
    \/ stop
    \/ StopJoin
    \/ WorkerSetup
    \/ WorkerRefill("ok", 0)
    \/ \E raw \in RawBuffers : WorkerConvert(raw)
    \/ WorkerSwap
    \/ WorkerDrain
    \/ ConsumerFlush
    \/ \E id \in SrIdChoices : MenuSampleRate(id)
    \/ \E id \in IqModeChoices : MenuIqMode(id)

InitConvert == InitOneDevice /\ hwMode = 0

SpecConvert == InitConvert /\ [][NextConvert]_vars

----------------------------------------------------------------------------
(* Properties of the session life cycle *)

\* C1: a failure while start() configures a session (context, phy, data
\* device, RX channel, I/Q data channels, DMA buffer) leaves the system idle:
\* not running, no thread, no open context, no buffer, no enabled channel.
C1_FailedStartIsIdle ==
    fail # "none" =>
        /\ ~running
        /\ wpc = "none"
        /\ ctx # "live"
        /\ ~rxbuf
        /\ chanOn = {}
        /\ ~crashed

\* C2: once stop() was called while the acquisition loop was running and
\* waits in join, the thread performs at most one more refill before it
\* leaves the loop.
C2_StopWithinOneCycle ==
    (ctl = "joining" /\ run.stoppedInLoop) => run.refillsAfterStop <= 1

\* C3: a cycle that begins after stop() cleared the running flag performs no
\* refill and no status poll.
C3_NoCycleAfterStop == [][(~running /\ wpc = "loop") => wpc' # "polled"]_vars

\* C4: when the thread has left the loop on its own because swap failed (the
\* consumer was torn down, no stop() was called), the system is idle: not
\* running and without an open context, so that start() starts a new session.
C4_TornDownReturnsToIdle ==
    (wpc = "done" /\ ctl = "idle" /\ fail = "none") => (~running /\ ctx # "live")

\* C5: a thread run that created the DMA buffer drains exactly once: never
\* twice, no refill follows the drain, a run that has returned has drained,
\* and the buffer never outlives the context stop() destroys.
C5_DrainOncePerRun ==
    /\ run.drains <= 1
    /\ run.drains = 1 => wpc \in {"done", "none"}
    /\ (wpc = "done" /\ run.layout # "none") => (run.drains = 1 /\ ~rxbuf)
    /\ rxbuf => (ctx = "live" /\ wpc \in {"loop", "polled", "swap", "drain"})
    /\ (wpc = "drain") => (rxbuf /\ ctx = "live")

C5_Witness == lastOp = "worker_drain" /\ run.drains = 1 /\ ctl = "joining" /\ ctx = "live"

\* C6: start() with no device selected (devDesc or uri empty) changes
\* nothing: no context, no thread, no handle, no hardware write.
C6_StartWithoutDevice ==
    [][(lastOp' = "start" /\ (devDesc = "" \/ uri = ""))
        => (hwLog' = <<>> /\
            UNCHANGED <<cfgVars, statVars, sessVars, stream, workVars, ctl, hwVars>>)]_vars

C6_Witness == lastOp = "start" /\ devDesc = "" /\ uri # "" /\ ctx = "NULL" /\ ~running

\* C7: stop() while not running changes nothing: flag, handles, stream stop
\* flag, thread and context stay as they are.
C7_StopWhenNotRunning ==
    [][(lastOp' = "stop" /\ ~running)
        => (hwLog' = <<>> /\
            UNCHANGED <<cfgVars, statVars, sessVars, stream, workVars, ctl, hwVars>>)]_vars

C7_Witness == lastOp = "stop" /\ ~running /\ ctl = "idle" /\ rxChan = "stale"

\* C8: from the return of start() until the session's first status poll the
\* menu shows no underflow and no overdrive.
C8_FreshStatusAfterRestart ==
    (running /\ ~run.polled) => (ShownBuffer = "nominal" /\ ShownGain = "OK")

----------------------------------------------------------------------------
(* Properties of live reconfiguration *)

\* C9: RF port and bit width are fixed for a session: a change of either
\* while running writes nothing to the hardware, and the overdrive register,
\* the enabled channel layout and the converter of every cycle are those of
\* the selection in effect when the session started.
C9_SessionFixesPortAndFormat ==
    /\ (running /\ lastOp \in {"menu_rfinput", "menu_iqmode"}) => hwLog = <<>>
    /\ run.ovrReg # "none" => run.ovrReg = OverdriveReg(run.rfAtStart, hwMode)
    /\ run.layout # "none" => run.layout = ConverterFor(run.iqAtStart)
    /\ run.conv # "none" => run.conv = ConverterFor(run.iqAtStart)

\* a request of one of the four live attributes, as the step just taken
ServedRequest ==
    /\ lastOp' = "tune" =>
         /\ freq' = lastArg'
         /\ hwLog' = (IF running THEN << <<"frequency", lastArg'>> >> ELSE <<>>)
    /\ lastOp' = "menu_bandwidth" =>
         /\ bandwidth' = Value(bandwidths, lastArg')
         /\ hwLog' = (IF running
                      THEN << <<"rf_bandwidth",
                                IF Value(bandwidths, lastArg') = 0
                                THEN Min(samplerate, 52000000)
                                ELSE Value(bandwidths, lastArg')>> >>
                      ELSE <<>>)
    /\ lastOp' = "menu_gain" =>
         /\ gain' = lastArg'
         /\ hwLog' = (IF running THEN << <<"hardwaregain", lastArg'>> >> ELSE <<>>)
    /\ lastOp' = "menu_gainmode" =>
         /\ gmId' = lastArg'
         /\ hwLog' = (IF running
                      THEN << <<"gain_control_mode", Value(gainModes, lastArg')>> >>
                      ELSE <<>>)
    /\ lastOp' \in {"tune", "menu_bandwidth", "menu_gain", "menu_gainmode"} =>
         UNCHANGED <<sessVars, stream, workVars, ctl, hwVars, statVars>>

\* a start() that spawned the thread wrote the four staged values
StartPushesStaged ==
    (lastOp' = "start" /\ ~running /\ running') =>
        /\ Wrote(hwLog', "frequency", freq)
        /\ Wrote(hwLog', "hardwaregain", gain)
        /\ Wrote(hwLog', "gain_control_mode", Value(gainModes, gmId))
        /\ Wrote(hwLog', "rf_bandwidth",
                 IF bandwidth = 0 THEN Min(samplerate, 52000000) ELSE bandwidth)

\* a staged value is replaced only by a request of its attribute, or by one
\* of the operations in except
StagedUntil(except) ==
    /\ lastOp' # "tune" => freq' = freq
    /\ lastOp' \notin ({"menu_bandwidth"} \cup except) => bandwidth' = bandwidth
    /\ lastOp' \notin ({"menu_gain"} \cup except) => gain' = gain
    /\ lastOp' \notin ({"menu_gainmode"} \cup except) => gmId' = gmId

\* C10 as claimed: for frequency, bandwidth, gain and gain mode a request
\* while running writes the new value and leaves the stream alone, a request
\* while not running writes nothing and stages the value, and the next start()
\* that succeeds writes the value requested last.
C10_LiveOrStagedUntilStart ==
    [][ServedRequest /\ StartPushesStaged /\ StagedUntil({})]_vars

\* C10 as amended: the same, except that select() (device combo, refresh)
\* replaces the staged bandwidth, gain and gain mode by the selected device's
\* stored values or the defaults.
C10_LiveOrStagedUntilSelect ==
    [][ServedRequest /\ StartPushesStaged
       /\ StagedUntil({"menu_refresh", "menu_device"})]_vars

C10_Witness ==
    /\ lastOp = "start" /\ running /\ gain = 20 /\ freq = 433920000
    /\ Wrote(hwLog, "hardwaregain", 20) /\ Wrote(hwLog, "frequency", 433920000)

----------------------------------------------------------------------------
(* Properties of the acquisition loop *)

\* C17: a cycle whose refill reported an error, or whose buffer pointer is
\* null, publishes nothing (no conversion into the write slot, no swap) and
\* the loop goes on to the next cycle.
C17_FailedCycleSkipped ==
    /\ (wpc = "swap" \/ lastOp = "worker_swap") => ~run.refillErr
    /\ run.bufNull => (wpc = "loop" /\ lastOp # "worker_swap")

\* C20: after the status poll of a cycle the underflow status is 1 exactly
\* when bit 2 of the value read from the status register in that cycle was
\* set, and the register is written back with that value in exactly those
\* cycles; a read with the bit clear leaves the status 0.
C20_UnderflowFollowsRegister ==
    [][lastOp' = "worker_refill" =>
         IF (lastArg' \div 4) % 2 = 1
         THEN underflow' = 1 /\ hwLog' = << <<"reg_0x80000088", lastArg'>> >>
         ELSE underflow' = 0 /\ hwLog' = <<>>]_vars

C20_Witness ==
    lastOp = "worker_refill" /\ lastArg = 1 /\ underflow = 0 /\ hwLog = <<>> /\ running

\* the thread has just published a block
Published == lastOp = "worker_swap" /\ wpc = "loop"

\* C14: every publish of a session hands over exactly blockSize complex
\* samples, blockSize = min(maximum transfer size, sampleRate / 20) of the
\* sample rate the thread found when the session started, in both IQ modes:
\* twice that many elements were converted into the slot.
C14_PublishIsBlockSize ==
    Published =>
        /\ stream.dataSize = Min(STREAM_BUFFER_SIZE, run.srAtSetup \div 20)
        /\ run.nconv = 2 * stream.dataSize

C14_Witness ==
    /\ Published /\ run.conv = "cs8" /\ run.layout = "cs8"
    /\ run.srAtSetup = 61440000 /\ stream.dataSize = 1000000

\* C15: in narrow mode (selected when the session started, Q channel
\* disabled at setup, 8-bit converter) the
\* published complex sample has I = raw I / 128 and Q = 0.0, whatever the
\* refilled buffer holds.
C15_NarrowQIsZero ==
    (Published /\ run.iqAtStart = 1 /\ run.layout = "cs8" /\ run.conv = "cs8") =>
        stream.readBuf = <<run.raw[1] * 16, 0>>

----------------------------------------------------------------------------
(* Properties of the device session *)

Handles == <<ctx, phy, dev, rxLO, rxChan>>

\* C18: every non-null session handle (context, phy, data device, LO
\* channel, RX channel) refers to a context that is open now; after a failed
\* open and after stop() no handle stays non-null.
C18_HandlesImplyOpenContext ==
    \A i \in DOMAIN Handles :
        Handles[i] # "NULL" => (Handles[i] = "live" /\ ctx = "live")

\* the attributes a log writes, in order
Attrs(log) == [i \in DOMAIN log |-> log[i][1]]

IsPrefix(a, b) == Len(a) <= Len(b) /\ a = SubSeq(b, 1, Len(a))

\* the order of the claim: steering (single-RX topology only), TX LO down,
\* RX LO up, port, frequency, sample rate, gain, gain mode, bandwidth
StartOrder(mode) ==
    (IF mode = 1 THEN <<>> ELSE <<"reg_0x003", "adi,1rx-1tx-mode-use-rx-num">>)
    \o <<"altvoltage1.powerdown", "altvoltage0.powerdown", "rf_port_select",
         "frequency", "sampling_frequency", "hardwaregain", "gain_control_mode",
         "rf_bandwidth">>

\* C19: the hardware writes of a start() happen in the order steering
\* register and rx-num attribute (single-RX topology only), TX LO power-down,
\* RX LO power-up, RF port select, LO frequency, sample rate, gain, gain mode,
\* bandwidth; a start() that spawns the thread has made all of them, and the
\* thread has not refilled yet.
C19_StartWriteOrder ==
    [][lastOp' = "start" =>
         /\ IsPrefix(Attrs(hwLog'), StartOrder(hwMode))
         /\ (~running /\ running') =>
                /\ Attrs(hwLog') = StartOrder(hwMode)
                /\ wpc' = "setup" /\ ~run'.polled /\ ~rxbuf']_vars

C19_Witness ==
    /\ lastOp = "start" /\ running /\ wpc = "setup" /\ hwMode = 0
    /\ Len(hwLog) = 10 /\ hwLog[1][1] = "reg_0x003" /\ hwLog[10][1] = "rf_bandwidth"

----------------------------------------------------------------------------
(* Properties of the stored and the staged configuration *)

ValidRates == {2500000 + 500000 * k : k \in 0 .. 117} \cup {61440000}

\* the last step was a select() of a listed device: the constructor's, the
\* device combo's or the refresh button's
Selected == lastOp \in {"construct", "menu_device", "menu_refresh"} /\ devDesc # ""

\* C11: the configured sample rate is always one of 2500000, 3000000, ...,
\* 61000000, 61440000; a stored value outside the set is replaced by table
\* entry 0 when the device is selected, and only values of the set are
\* written to the hardware.
C11_SampleRateInTable ==
    /\ samplerate \in ValidRates
    /\ \A i \in DOMAIN hwLog :
          hwLog[i][1] = "sampling_frequency" => hwLog[i][2] \in ValidRates
    /\ (Selected /\ Contains(conf[devDesc], "samplerate")
           /\ conf[devDesc].samplerate \notin ValidRates)
        => (samplerate = 2500000 /\ srId = 0)

C11_Witness ==
    /\ lastOp = "start" /\ running
    /\ Contains(conf[devDesc], "samplerate") /\ conf[devDesc].samplerate = 1234567
    /\ Wrote(hwLog, "sampling_frequency", 2500000)

\* C12: the stored gain is always within [-1, 73]; a persisted gain outside
\* the range is loaded as the bound it exceeds.
C12_GainInRange ==
    /\ gain >= -1 /\ gain <= 73
    /\ (Selected /\ Contains(conf[devDesc], "gain")) =>
          gain = (IF conf[devDesc].gain < -1 THEN -1
                  ELSE IF conf[devDesc].gain > 73 THEN 73 ELSE conf[devDesc].gain)

C12_Witness ==
    /\ lastOp = "menu_device"
    /\ Contains(conf[devDesc], "gain") /\ conf[devDesc].gain = 80 /\ gain = 73

\* C13: every write of rf_bandwidth carries min(sample rate, 52000000) when
\* the bandwidth setting is 0 (Auto) and the setting itself otherwise; the
\* setting is always an entry of the table, a stored bandwidth that is no
\* entry being replaced by Auto when the device is selected.
C13_BandwidthApplied ==
    /\ \A i \in DOMAIN hwLog :
          hwLog[i][1] = "rf_bandwidth" =>
              hwLog[i][2] = (IF bandwidth = 0
                             THEN (IF samplerate < 52000000 THEN samplerate ELSE 52000000)
                             ELSE bandwidth)
    /\ lastOp = "menu_bandwidth" => bandwidth = Value(bandwidths, lastArg)
    /\ bandwidth = 0 \/ bandwidth \in {1000000 + 500000 * k : k \in 0 .. 102}
    /\ (Selected /\ Contains(conf[devDesc], "bandwidth")
           /\ conf[devDesc].bandwidth # 0
           /\ conf[devDesc].bandwidth \notin {1000000 + 500000 * k : k \in 0 .. 102})
        => (bandwidth = 0 /\ bwId = 0)

C13_Witness ==
    /\ lastOp = "start" /\ running
    /\ Contains(conf[devDesc], "bandwidth") /\ conf[devDesc].bandwidth = 777
    /\ samplerate = 61440000 /\ Wrote(hwLog, "rf_bandwidth", 52000000)

\* C16: after a selection of a device, each of sample rate, bandwidth, gain,
\* gain mode and RF port has the value the menu last wrote to that device's
\* configuration.
C16_RoundTrip ==
    (lastOp \in {"menu_device", "menu_refresh"} /\ devDesc # "") =>
        /\ (Contains(conf[devDesc], "samplerate")
              /\ conf[devDesc].samplerate \in ValidRates)
           => samplerate = conf[devDesc].samplerate
        /\ (Contains(conf[devDesc], "bandwidth")
              /\ KeyExists(bandwidths, conf[devDesc].bandwidth))
           => bandwidth = conf[devDesc].bandwidth
        /\ (Contains(conf[devDesc], "gain") /\ conf[devDesc].gain \in SliderRange)
           => gain = conf[devDesc].gain
        /\ (Contains(conf[devDesc], "gainMode")
              /\ KeyExists(gainModes, conf[devDesc].gainMode))
           => Value(gainModes, gmId) = conf[devDesc].gainMode
        /\ Contains(conf[devDesc], "rfinput")
           => Value(rfinputselect, rfId) = conf[devDesc].rfinput

----------------------------------------------------------------------------
(* Properties of select() and of the module's life cycle *)

\* C21: select(desc) with a non-empty device list and a desc that is not in
\* the list (the refresh button passes the current selection, carried in
\* lastArg) selects the first device: devDesc is the first listed key, uri is
\* that device's URI, and the unavailable desc is not the selection.
C21_MissingSelectsFirst ==
    [][(lastOp' = "menu_refresh" /\ devices' # <<>> /\ ~KeyExists(devices', devDesc))
        => (/\ lastArg' = devDesc
            /\ devDesc' = devices'[1]
            /\ uri' = DeviceUri(devices'[1])
            /\ devDesc' # devDesc
            /\ ~crashed')]_vars

C21_Witness ==
    /\ lastOp = "menu_refresh" /\ lastArg = ""
    /\ devices = <<"PlutoSDR usb", "ANTSDR ip">>
    /\ devDesc = "PlutoSDR usb" /\ uri = "usb:1.4.5"

\* the thread object is joinable: spawned and not yet joined
Joinable == wpc # "none"

\* C22: start() assigns a thread only when no thread object is joinable, so
\* at most one acquisition thread exists, also after a thread that returned
\* on its own; start() while running changes nothing; a joinable thread
\* belongs to a session that is running or being stopped, and the destructor
\* never destroys a joinable thread object.
C22_OneThread ==
    [][/\ (lastOp' = "start" /\ ~running /\ running')
            => (~Joinable /\ wpc' = "setup" /\ ~crashed')
       /\ (lastOp' = "start" /\ running)
            => (hwLog' = <<>> /\
                UNCHANGED <<cfgVars, statVars, sessVars, stream, workVars, ctl, hwVars>>)
       /\ Joinable => (running \/ ctl \in {"joining", "destroying"})
       /\ lastOp' = "destructor" => ~crashed'
       /\ ctl' = "destroyed" => wpc' = "none"]_vars

C22_Witness ==
    lastOp = "start" /\ running /\ wpc = "done" /\ ctl = "idle" /\ fail = "buffer"

\* C23: a context is destroyed only by stop() after the thread has returned,
\* and only while it is open (never twice); start() opens a context only
\* when none is open, and none is open once the module is destroyed (never
\* leaked); every hardware access of the thread and every live retune goes
\* through handles of the open context.
C23_ContextDestroyedOnce ==
    [][/\ (ctx = "live" /\ ctx' # "live") => (lastOp' = "stop_return" /\ wpc = "done")
       /\ (lastOp' = "stop_return" /\ ctx # "NULL") => ctx = "live"
       /\ (lastOp' = "start" /\ ~running /\ devDesc # "" /\ uri # "") => ctx # "live"
       /\ ctl' = "destroyed" => ctx' # "live"
       /\ lastOp' \in {"worker_setup", "worker_refill", "worker_convert", "worker_drain"}
            => (ctx = "live" /\ phy = "live" /\ dev = "live")
       /\ (lastOp' = "tune" /\ hwLog' # <<>>) => (ctx = "live" /\ rxLO = "live")]_vars

C23_Witness ==
    lastOp = "stop_return" /\ ctl = "destroyed" /\ ctx = "NULL" /\ phy = "stale"

\* C24: isEnabled() returns false after disable() and true after enable().
C24_EnabledFollowsLastCall ==
    /\ lastOp = "disable" => ~isEnabled
    /\ lastOp = "enable" => isEnabled

====
